---- MODULE Spec2Model ----
(***************************************************************************)
(* Scene playback of src/src/App.jsx (the player component, lines 139-418).*)
(* React state of App, the timer of useAutoAdvance and the two halves of   *)
(* the asynchronous generate() are modelled; one action per event handler, *)
(* each including the re-render and the effect run that follow it (React   *)
(* commits a handler's batched updates and runs the effect of the render   *)
(* before the next event or timeout is dispatched).                        *)
(***************************************************************************)
EXTENDS Integers, Sequences, FiniteSets, TLC

\* ------------------------------------------------------------------ bounds
\* longest scene list a backend response carries in the model
MaxLen == 3
\* timer handles the browser may hand out (only freshness matters)
MaxTimerId == 3

\* ------------------------------------------------------- data of a response
\* transition.duration in tenths of a second; 0 stands for a falsy duration
\* (undefined, null or 0), which `|| 0.8` replaces
NoDuration == 0
DefaultDuration == 8

Pacings == {"slow", "normal", "fast"}

\* scenes a response may hold: {transition: {type, duration}, characters:
\* [{id}]}, the characters given by their ids
Scenes ==
  { [type |-> "wipe", duration |-> 12, characters |-> {"c1"}],
    [type |-> "zoom", duration |-> NoDuration, characters |-> {}] }

\* currentScene when result?.scenes[idx] is undefined
NoScene == [type |-> "undefined", duration |-> NoDuration, characters |-> {}]

SceneLists == UNION { [1..n -> Scenes] : n \in 0..MaxLen }

\* result === null, and the parsed bodies of successful responses whose
\* roster (result.characters, by id) holds every character a scene names
NoResult == [loaded |-> FALSE, scenes |-> <<>>, characters |-> {}]
Responses ==
  { [loaded |-> TRUE, scenes |-> s, characters |-> {"c1"}] : s \in SceneLists }

\* responses as the backend may send them: the roster may lack a character
UntrustedResponses ==
  { [loaded |-> TRUE, scenes |-> s, characters |-> cs] :
      s \in SceneLists, cs \in {{}, {"c1"}} }

\* a missing or empty transition.type
NoType == ""

\* the transition types getTransitionVariants has a case for
TransitionTypes == {"crossfade", "wipe", "pan", "dolly", "fade-through-black"}

\* single-scene responses over every transition type, an unknown one and a
\* missing one, with and without a duration and a character
ProfileScenes ==
  { [type |-> ty, duration |-> d, characters |-> cs] :
      ty \in TransitionTypes \cup {"zoom", NoType},
      d \in {NoDuration, 12},
      cs \in {{}, {"c1"}} }

ProfileResponses ==
  { [loaded |-> TRUE, scenes |-> <<sc>>, characters |-> {"c1"}] :
      sc \in ProfileScenes }

\* scenes of an uninterrupted run: durations of 0.8 s, 1.2 s and none
AutoScenes ==
  { [type |-> "crossfade", duration |-> 8, characters |-> {}],
    [type |-> "wipe", duration |-> 12, characters |-> {"c1"}],
    [type |-> "zoom", duration |-> NoDuration, characters |-> {}] }

AutoResponses ==
  { [loaded |-> TRUE, scenes |-> s, characters |-> {"c1"}] :
      s \in UNION { [1..n -> AutoScenes] : n \in 1..MaxLen } }

\* e.message of a failed request: !res.ok, or a rejected fetch
ErrorMessages == {"Request failed: 500", "Failed to fetch"}

Min(a, b) == IF a < b THEN a ELSE b
Max(a, b) == IF a > b THEN a ELSE b

VARIABLES
  pacing,    \* useState('normal')
  result,    \* useState(null)
  loading,   \* useState(false)
  error,     \* useState('')
  playing,   \* useState(false)
  idx,       \* useState(0)
  timers,    \* timeouts pending in the browser: [id, delay, result]
  timerRef,  \* timerRef.current, 0 for null
  cleanup,   \* whether the last effect run returned its cleanup function
  crashed,   \* a render of App threw: React has unmounted the tree
  inFlight,  \* fetch calls of generate() that have not settled yet
  lastOp,    \* the handler that ran last
  atRequest  \* playback state when the generate() in flight, or just
             \* answered, was issued

vars == <<pacing, result, loading, error, playing, idx, timers, timerRef,
          cleanup, crashed, inFlight, lastOp, atRequest>>

\* ------------------------------------------------------------ pure helpers
\* basePerSceneMs with the slow and fast values exchanged
BasePerSceneMsSwapped(pc) ==
  IF pc = "slow" THEN 1800
  ELSE IF pc = "fast" THEN 4000
  ELSE 2800

\* basePerSceneMs (useMemo over pacing)
BasePerSceneMs(pc) ==
  IF pc = "slow" THEN 4000
  ELSE IF pc = "fast" THEN 1800
  ELSE 2800

\* currentScene = result?.scenes[idx]
CurrentScene(r, i) ==
  IF r.loaded /\ i >= 0 /\ i < Len(r.scenes) THEN r.scenes[i + 1] ELSE NoScene

\* result.characters.find(c => c.id === id): whether a character is found
FindCharacter(roster, id) == id \in roster

\* the player preview reads base.color and base.name of every character of
\* the current scene: a TypeError when find returned undefined
PreviewThrows(r, i) ==
  \E id \in CurrentScene(r, i).characters : ~FindCharacter(r.characters, id)

\* getDelayMs without its `if (!currentScene) return 0`
GetDelayMsNoGuard(r, i, pc) ==
  LET d == CurrentScene(r, i).duration
      t == (IF d = NoDuration THEN DefaultDuration ELSE d) * 100
  IN BasePerSceneMs(pc) + t

\* getDelayMs
GetDelayMs(r, i, pc) ==
  IF CurrentScene(r, i) = NoScene THEN 0
  ELSE LET d == CurrentScene(r, i).duration
           t == (IF d = NoDuration THEN DefaultDuration ELSE d) * 100
       IN BasePerSceneMs(pc) + t

\* common = { duration: currentScene?.transition?.duration || 0.8 }
Common(cs) ==
  [duration |-> IF cs.duration = NoDuration THEN DefaultDuration ELSE cs.duration]

\* the `default` profile of getTransitionVariants
Crossfade(cs) ==
  [initial |-> [opacity |-> "0"],
   animate |-> [opacity |-> "1", transition |-> Common(cs)],
   exit |-> [opacity |-> "0", transition |-> Common(cs)]]

\* the `case 'dolly'` profile
Dolly(cs) ==
  [initial |-> [scale |-> "0.9", opacity |-> "0"],
   animate |-> [scale |-> "1", opacity |-> "1", transition |-> Common(cs)],
   exit |-> [scale |-> "1.05", opacity |-> "0", transition |-> Common(cs)]]

\* getTransitionVariants whose default falls into the case before it
GetTransitionVariantsFallsThrough(t, cs) ==
  CASE t = "wipe" ->
         [initial |-> [x |-> "100%", opacity |-> "1"],
          animate |-> [x |-> "0", opacity |-> "1", transition |-> Common(cs)],
          exit |-> [x |-> "-100%", opacity |-> "1", transition |-> Common(cs)]]
    [] t = "pan" ->
         [initial |-> [scale |-> "1.1", x |-> "20", opacity |-> "0.9"],
          animate |-> [scale |-> "1", x |-> "0", opacity |-> "1",
                       transition |-> Common(cs)],
          exit |-> [scale |-> "0.98", x |-> "-15", opacity |-> "0.9",
                    transition |-> Common(cs)]]
    [] t = "dolly" -> Dolly(cs)
    [] t = "crossfade" -> Crossfade(cs)
    [] OTHER ->
         [initial |-> [opacity |-> "0", filter |-> "brightness(0)"],
          animate |-> [opacity |-> "1", filter |-> "brightness(1)",
                       transition |-> Common(cs)],
          exit |-> [opacity |-> "0", filter |-> "brightness(0)",
                    transition |-> Common(cs)]]

\* getTransitionVariants(t), cs being the currentScene of its closure
GetTransitionVariants(t, cs) ==
  CASE t = "wipe" ->
         [initial |-> [x |-> "100%", opacity |-> "1"],
          animate |-> [x |-> "0", opacity |-> "1", transition |-> Common(cs)],
          exit |-> [x |-> "-100%", opacity |-> "1", transition |-> Common(cs)]]
    [] t = "pan" ->
         [initial |-> [scale |-> "1.1", x |-> "20", opacity |-> "0.9"],
          animate |-> [scale |-> "1", x |-> "0", opacity |-> "1",
                       transition |-> Common(cs)],
          exit |-> [scale |-> "0.98", x |-> "-15", opacity |-> "0.9",
                    transition |-> Common(cs)]]
    [] t = "dolly" -> Dolly(cs)
    [] t = "fade-through-black" ->
         [initial |-> [opacity |-> "0", filter |-> "brightness(0)"],
          animate |-> [opacity |-> "1", filter |-> "brightness(1)",
                       transition |-> Common(cs)],
          exit |-> [opacity |-> "0", filter |-> "brightness(0)",
                    transition |-> Common(cs)]]
    [] OTHER -> Crossfade(cs)

\* Prev button: setIdx(i => Math.max(0, i - 1))
PrevIdx(i) == Max(0, i - 1)

\* Next without its Math.min clamp
NextIdxNoClamp(r, i) == IF r.loaded THEN i + 1 ELSE 0

\* Next button: setIdx(i => result ? Math.min(result.scenes.length - 1, i + 1) : 0)
NextIdx(r, i) == IF r.loaded THEN Min(Len(r.scenes) - 1, i + 1) ELSE 0

\* onTick wrapping to the first scene instead of stopping
OnTickLoops(r, i) ==
  LET next == i + 1 IN
  IF ~r.loaded THEN [idx |-> 0, stop |-> FALSE]
  ELSE IF next >= Len(r.scenes) THEN [idx |-> 0, stop |-> FALSE]
  ELSE [idx |-> next, stop |-> FALSE]

\* onTick comparing with > instead of >=
OnTickOffByOne(r, i) ==
  LET next == i + 1 IN
  IF ~r.loaded THEN [idx |-> 0, stop |-> FALSE]
  ELSE IF next > Len(r.scenes) THEN [idx |-> i, stop |-> TRUE]
  ELSE [idx |-> next, stop |-> FALSE]

\* onTick advancing by two
OnTickSkips(r, i) ==
  LET next == i + 2 IN
  IF ~r.loaded THEN [idx |-> 0, stop |-> FALSE]
  ELSE IF next >= Len(r.scenes) THEN [idx |-> i, stop |-> TRUE]
  ELSE [idx |-> next, stop |-> FALSE]

\* the updater of onTick, with the result its closure captured: the new idx
\* and whether setPlaying(false) was called
OnTick(r, i) ==
  LET next == i + 1 IN
  IF ~r.loaded THEN [idx |-> 0, stop |-> FALSE]
  ELSE IF next >= Len(r.scenes) THEN [idx |-> i, stop |-> TRUE]
  ELSE [idx |-> next, stop |-> FALSE]

\* resetPlayer without its setIdx(0)
ResetPlayerKeepsIdx == [idx |-> idx, playing |-> FALSE]

\* resetPlayer without its setPlaying(false)
ResetPlayerKeepsPlaying == [idx |-> 0, playing |-> playing]

\* resetPlayer: setIdx(0); setPlaying(false)
ResetPlayer == [idx |-> 0, playing |-> FALSE]

\* ------------------------------------------------------------------ timers
\* a clearTimeout that cancels nothing
ClearTimeoutNothing(ts, ref) == ts

\* timerRef.current && clearTimeout(timerRef.current)
ClearTimeout(ts, ref) == { t \in ts : t.id # ref }

\* the handle setTimeout returns: one no pending timer and no ref holds
FreshId(ts, ref) ==
  CHOOSE i \in 1..MaxTimerId : i # ref /\ \A t \in ts : t.id # i

\* a dependency array that leaves out `idx`
DepsWithoutIdx(p, i, r, pc) == <<p, r, BasePerSceneMs(pc)>>

\* a dependency array that leaves out `basePerSceneMs`
DepsWithoutPacing(p, i, r, pc) == <<p, i, r>>

\* a dependency array that leaves out `playing`
DepsWithoutPlaying(p, i, r, pc) == <<i, r, BasePerSceneMs(pc)>>

\* the dependency array of the effect
Deps(p, i, r, pc) == <<p, i, r, BasePerSceneMs(pc)>>

\* useAutoAdvance whose effect returns no cleanup function
UseAutoAdvanceNoCleanup(p, i, r, pc, ts, ref, cu) ==
  LET enabled == p /\ r.loaded
      delay == GetDelayMs(r, i, pc)
  IN IF ~enabled \/ delay <= 0
     THEN [timers |-> ts, timerRef |-> ref, cleanup |-> FALSE]
     ELSE LET ts2 == ClearTimeout(ts, ref)
              id == FreshId(ts2, ref)
          IN [timers |-> ts2 \cup {[id |-> id, delay |-> delay, result |-> r]},
              timerRef |-> id, cleanup |-> FALSE]

\* useAutoAdvance's effect on a render whose deps changed: the previous
\* run's cleanup, then the effect body
UseAutoAdvance(p, i, r, pc, ts, ref, cu) ==
  LET ts1 == IF cu THEN ClearTimeout(ts, ref) ELSE ts
      enabled == p /\ r.loaded
      delay == GetDelayMs(r, i, pc)
  IN IF ~enabled \/ delay <= 0
     THEN [timers |-> ts1, timerRef |-> ref, cleanup |-> FALSE]
     ELSE LET ts2 == ClearTimeout(ts1, ref)
              id == FreshId(ts2, ref)
          IN [timers |-> ts2 \cup {[id |-> id, delay |-> delay, result |-> r]},
              timerRef |-> id, cleanup |-> TRUE]

\* what a reader of the player sees: sequence, cursor, auto flag, timers
Snapshot == [result |-> result, idx |-> idx, playing |-> playing,
             timers |-> timers]
NoRequest == [result |-> NoResult, idx |-> 0, playing |-> FALSE, timers |-> {}]

\* result.scenes.length of the installed result (0 when there is none)
SceneCount == Len(result.scenes)

\* no timeout is pending in the browser
NoTimer == timers = {}

\* the initial, animate and exit props of the motion.div of the preview
MotionProps ==
  GetTransitionVariants(CurrentScene(result, idx).type, CurrentScene(result, idx))

\* commit of a handler's state updates: re-render, then the effect if its
\* deps changed; ts are the timeouts pending when the handler returns.  A
\* render that throws (there is no error boundary) unmounts App, which runs
\* the effect's cleanup and ends every handler.
Render(op, p, i, r, pc, ts) ==
  LET e == IF PreviewThrows(r, i)
           THEN [timers |-> IF cleanup THEN ClearTimeout(ts, timerRef) ELSE ts,
                 timerRef |-> timerRef, cleanup |-> FALSE]
           ELSE IF Deps(p, i, r, pc) # Deps(playing, idx, result, pacing)
           THEN UseAutoAdvance(p, i, r, pc, ts, timerRef, cleanup)
           ELSE [timers |-> ts, timerRef |-> timerRef, cleanup |-> cleanup]
  IN /\ ~crashed
     /\ crashed' = PreviewThrows(r, i)
     /\ playing' = p
     /\ idx' = i
     /\ result' = r
     /\ pacing' = pc
     /\ timers' = e.timers
     /\ timerRef' = e.timerRef
     /\ cleanup' = e.cleanup
     /\ lastOp' = op
     /\ atRequest' = IF op = "generate" THEN Snapshot
                     ELSE IF loading THEN atRequest
                     ELSE NoRequest

\* ------------------------------------------------------------------- init
Init ==
  /\ pacing = "normal"
  /\ result = NoResult
  /\ loading = FALSE
  /\ error = ""
  /\ playing = FALSE
  /\ idx = 0
  /\ timers = {}
  /\ timerRef = 0
  /\ cleanup = FALSE
  /\ crashed = FALSE
  /\ inFlight = 0
  /\ lastOp = "init"
  /\ atRequest = NoRequest

\* ---------------------------------------------------------------- actions
\* the player's buttons are rendered only under {result && ...}
Play ==
  /\ result.loaded /\ ~playing
  /\ Render("play", TRUE, idx, result, pacing, timers)
  /\ UNCHANGED <<loading, error, inFlight>>

Pause ==
  /\ result.loaded /\ playing
  /\ Render("pause", FALSE, idx, result, pacing, timers)
  /\ UNCHANGED <<loading, error, inFlight>>

Prev ==
  /\ result.loaded
  /\ Render("prev", playing, PrevIdx(idx), result, pacing, timers)
  /\ UNCHANGED <<loading, error, inFlight>>

NextScene ==
  /\ result.loaded
  /\ Render("next", playing, NextIdx(result, idx), result, pacing, timers)
  /\ UNCHANGED <<loading, error, inFlight>>

Reset ==
  /\ result.loaded
  /\ Render("reset", ResetPlayer.playing, ResetPlayer.idx, result, pacing, timers)
  /\ UNCHANGED <<loading, error, inFlight>>

\* a pending timeout fires: onTick
Tick ==
  \E t \in timers :
    LET u == OnTick(t.result, idx) IN
    /\ Render("tick", IF u.stop THEN FALSE ELSE playing, u.idx, result, pacing,
              timers \ {t})
    /\ UNCHANGED <<loading, error, inFlight>>

\* the pacing select
SetPacing ==
  \E pc \in Pacings :
    /\ Render("pacing", playing, idx, result, pc, timers)
    /\ UNCHANGED <<loading, error, inFlight>>

\* generate() behind a button that is not disabled while loading
GenerateWhileLoading ==
  /\ loading' = TRUE
  /\ error' = ""
  /\ inFlight' = inFlight + 1
  /\ Render("generate", ResetPlayer.playing, ResetPlayer.idx, NoResult, pacing, timers)

\* generate() that keeps the displayed result until the response arrives
GenerateKeepsResult ==
  /\ ~loading
  /\ loading' = TRUE
  /\ error' = ""
  /\ inFlight' = inFlight + 1
  /\ Render("generate", ResetPlayer.playing, ResetPlayer.idx, result, pacing, timers)

\* generate() without its resetPlayer() call
GenerateNoReset ==
  /\ ~loading
  /\ loading' = TRUE
  /\ error' = ""
  /\ inFlight' = inFlight + 1
  /\ Render("generate", playing, idx, NoResult, pacing, timers)

\* generate() up to its await fetch; the button is disabled={loading}
Generate ==
  /\ ~loading
  /\ loading' = TRUE
  /\ error' = ""
  /\ inFlight' = inFlight + 1
  /\ Render("generate", ResetPlayer.playing, ResetPlayer.idx, NoResult, pacing, timers)

\* generate() resumed with a successful response
GenerateOk ==
  \E data \in Responses :
    /\ inFlight > 0
    /\ inFlight' = inFlight - 1
    /\ loading' = FALSE
    /\ Render("generateOk", playing, 0, data, pacing, timers)
    /\ UNCHANGED error

\* generate() resumed with a single-scene response of any transition
GenerateOkProfiles ==
  \E data \in ProfileResponses :
    /\ inFlight > 0
    /\ inFlight' = inFlight - 1
    /\ loading' = FALSE
    /\ Render("generateOk", playing, 0, data, pacing, timers)
    /\ UNCHANGED error

\* generate() resumed with a successful response that may be malformed
GenerateOkUntrusted ==
  \E data \in UntrustedResponses :
    /\ inFlight > 0
    /\ inFlight' = inFlight - 1
    /\ loading' = FALSE
    /\ Render("generateOk", playing, 0, data, pacing, timers)
    /\ UNCHANGED error

\* generate() resumed with !res.ok or a rejected fetch
GenerateFail ==
  \E msg \in ErrorMessages :
    /\ inFlight > 0
    /\ inFlight' = inFlight - 1
    /\ loading' = FALSE
    /\ error' = msg
    /\ Render("generateFail", playing, idx, result, pacing, timers)

Next ==
  \/ Play
  \/ Pause
  \/ Prev
  \/ NextScene
  \/ Reset
  \/ Tick
  \/ SetPacing
  \/ Generate
  \/ GenerateOk
  \/ GenerateFail

Spec == Init /\ [][Next]_vars

\* a fetch eventually settles: it resolves, or it rejects
SpecFair == Init /\ [][Next]_vars /\ WF_vars(GenerateOk \/ GenerateFail)

\* the same handlers over responses that need not be well-formed
NextUntrusted ==
  \/ Play
  \/ Pause
  \/ Prev
  \/ NextScene
  \/ Reset
  \/ Tick
  \/ SetPacing
  \/ Generate
  \/ GenerateOkUntrusted
  \/ GenerateFail

SpecUntrusted == Init /\ [][NextUntrusted]_vars

\* the same handlers over single-scene responses of every transition type
NextProfiles ==
  \/ Play
  \/ Pause
  \/ Prev
  \/ NextScene
  \/ Reset
  \/ Tick
  \/ SetPacing
  \/ Generate
  \/ GenerateOkProfiles
  \/ GenerateFail

SpecProfiles == Init /\ [][NextProfiles]_vars

\* a sequence installed and stepped to some scene with Next, not playing
InitAuto ==
  \E r \in AutoResponses, c \in 0..(MaxLen - 1), pc \in Pacings :
    /\ c < Len(r.scenes)
    /\ pacing = pc
    /\ result = r
    /\ loading = FALSE
    /\ error = ""
    /\ playing = FALSE
    /\ idx = c
    /\ timers = {}
    /\ timerRef = 0
    /\ cleanup = FALSE
    /\ crashed = FALSE
    /\ inFlight = 0
    /\ lastOp = IF c = 0 THEN "generateOk" ELSE "next"
    /\ atRequest = NoRequest

\* Play and the timeouts only: no other handler interrupts the run
NextAuto ==
  \/ Play
  \/ Tick

\* a pending timeout of the browser eventually fires
SpecAuto == InitAuto /\ [][NextAuto]_vars /\ WF_vars(Tick)

\* ================================================================= claims
\* C1: with a sequence of length L >= 1 installed, 0 <= idx <= L-1 in every
\* reachable state, whatever handlers and timer firings led to it.
C1_CursorInRange ==
  (result.loaded /\ SceneCount >= 1) => (0 <= idx /\ idx <= SceneCount - 1)

\* Next was pressed on the last scene of a full-length sequence
C1_Witness ==
  /\ lastOp = "next"
  /\ SceneCount = MaxLen
  /\ idx = SceneCount - 1

\* C2: at most one timeout is pending in every reachable state, and a
\* pending one is the one timerRef holds (every earlier one was cancelled);
\* after Prev or Next pressed while playing on a scene exactly one is pending.
C2_AtMostOneTimer ==
  /\ Cardinality(timers) <= 1
  /\ \A t \in timers : t.id = timerRef
  /\ (lastOp \in {"prev", "next"} /\ playing /\ CurrentScene(result, idx) # NoScene)
       => Cardinality(timers) = 1

\* Prev pressed while playing: the timer was replaced, one is pending
C2_Witness ==
  /\ lastOp = "prev"
  /\ playing
  /\ idx = 1
  /\ SceneCount = 3
  /\ Cardinality(timers) = 1

\* C3 as claimed: after a failed request the sequence, cursor, auto flag and
\* pending timer are those of the moment the request was issued.
C3_FailKeepsPlayback ==
  lastOp = "generateFail" => Snapshot = atRequest

\* C3 amended: after a failed request no sequence is installed and the
\* playback state is the reset one (cursor 0, auto off, no timer); the
\* error message is set and loading is cleared.
C3_FailLeavesCleared ==
  lastOp = "generateFail" =>
    /\ result = NoResult
    /\ idx = 0
    /\ ~playing
    /\ NoTimer
    /\ error \in ErrorMessages
    /\ ~loading

\* a request issued while playing past the first scene has failed
C3_Witness ==
  /\ lastOp = "generateFail"
  /\ atRequest.result.loaded
  /\ atRequest.playing
  /\ atRequest.idx > 0
  /\ atRequest.timers # {}

\* C4: a successful generate ends with the new sequence installed, idx = 0,
\* playing = FALSE and no timeout pending, whatever the state at the request.
C4_InstallResets ==
  lastOp = "generateOk" =>
    /\ result.loaded
    /\ idx = 0
    /\ ~playing
    /\ NoTimer

\* a request issued while playing past the first scene has succeeded
C4_Witness ==
  /\ lastOp = "generateOk"
  /\ SceneCount >= 1
  /\ atRequest.result.loaded
  /\ atRequest.playing
  /\ atRequest.idx > 0
  /\ atRequest.timers # {}

\* C5 as claimed: from the request to the installation a reader sees either
\* the old sequence with the old playback state or the new sequence with
\* the reset playback state.
C5_InstallAtomic ==
  (loading \/ lastOp = "generateOk") =>
    \/ Snapshot = atRequest
    \/ /\ ~loading
       /\ result.loaded
       /\ idx = 0
       /\ ~playing
       /\ NoTimer

\* C5 amended: while the request is in flight a reader sees no sequence
\* with the reset playback state, and after a success the new sequence with
\* the reset playback state; never a sequence with a stale cursor, flag or
\* timer.
C5_ClearedThenInstalled ==
  /\ loading => (result = NoResult /\ idx = 0 /\ ~playing /\ NoTimer)
  /\ lastOp = "generateOk" =>
       (~loading /\ result.loaded /\ idx = 0 /\ ~playing /\ NoTimer)

\* a request is in flight that was issued over a sequence being played
C5_Witness ==
  /\ loading
  /\ atRequest.result.loaded
  /\ atRequest.idx > 0
  /\ atRequest.playing

\* C6 as claimed: Play on an empty sequence leaves playing = FALSE and
\* schedules no timer.
C6_EmptyPlayRejected ==
  (lastOp = "play" /\ SceneCount = 0) => (~playing /\ NoTimer)

\* C6 amended: Play on an empty sequence sets playing = TRUE but schedules
\* no timer, the delay of the missing scene being 0.
C6_EmptyPlayNoTimer ==
  (lastOp = "play" /\ SceneCount = 0) =>
    /\ playing
    /\ NoTimer
    /\ CurrentScene(result, idx) = NoScene
    /\ GetDelayMs(result, idx, pacing) = 0

\* Play was pressed over an installed empty sequence
C6_Witness ==
  /\ lastOp = "play"
  /\ result.loaded
  /\ SceneCount = 0

\* C7 as claimed: on an empty sequence Next, Prev and Reset leave idx and
\* playing as they were, and the current scene stays undefined.
C7_EmptyNavNoOp ==
  [][ (lastOp' \in {"next", "prev", "reset"} /\ result.loaded /\ SceneCount = 0)
        => /\ idx' = idx
           /\ playing' = playing
           /\ CurrentScene(result', idx') = NoScene ]_vars

\* C8 as claimed: Play at the last index is a no-op (playing stays FALSE, no
\* timer); at any other index of a non-empty sequence it starts playing and
\* schedules a timer.
C8_PlayAtEndRejected ==
  (lastOp = "play" /\ SceneCount >= 1) =>
    /\ idx = SceneCount - 1 => (~playing /\ NoTimer)
    /\ idx < SceneCount - 1 => (playing /\ Cardinality(timers) = 1)

\* C8 amended: Play on a non-empty sequence sets playing = TRUE and
\* schedules exactly one timer with the current scene's delay at every
\* index, the last one included.
C8_PlayAlwaysSchedules ==
  (lastOp = "play" /\ SceneCount >= 1) =>
    /\ playing
    /\ Cardinality(timers) = 1
    /\ \A t \in timers : t.delay = GetDelayMs(result, idx, pacing) /\ t.delay > 0

\* Play was pressed on the last scene of a longer sequence
C8_Witness ==
  /\ lastOp = "play"
  /\ SceneCount >= 2
  /\ idx = SceneCount - 1
  /\ playing

\* C9: on a single-scene sequence Play schedules exactly one timer, and the
\* tick of that timer leaves playing = FALSE, idx = 0 and no timer pending.
C9_SingleScene ==
  /\ (lastOp = "play" /\ SceneCount = 1) =>
       (playing /\ idx = 0 /\ Cardinality(timers) = 1)
  /\ (lastOp = "tick" /\ SceneCount = 1) =>
       (~playing /\ idx = 0 /\ NoTimer)

\* the timer of a single-scene sequence has fired
C9_Witness ==
  /\ lastOp = "tick"
  /\ SceneCount = 1
  /\ ~playing

\* C10: a tick at idx = L-1 sets playing to FALSE, leaves idx where it is and
\* leaves no timer pending; it does not wrap to index 0.
C10_TickAtEndStops ==
  [][ (lastOp' = "tick" /\ result.loaded /\ idx = SceneCount - 1)
        => /\ ~playing'
           /\ idx' = idx
           /\ result' = result
           /\ timers' = {} ]_vars

\* a tick has stopped playback on the last scene of a longer sequence
C10_Witness ==
  /\ lastOp = "tick"
  /\ SceneCount >= 2
  /\ idx = SceneCount - 1
  /\ ~playing

\* C11: Reset pressed with a sequence present leaves idx = 0, playing = FALSE
\* and no timeout pending, whatever the state before.
C11_ResetStops ==
  [][ (lastOp' = "reset" /\ result.loaded)
        => /\ idx' = 0
           /\ ~playing'
           /\ timers' = {}
           /\ result' = result ]_vars

\* Reset was pressed over a longer sequence on which a timer had been set
C11_Witness ==
  /\ lastOp = "reset"
  /\ SceneCount >= 2
  /\ timerRef # 0
  /\ idx = 0
  /\ ~playing

\* C12: Pause pressed while playing cancels the pending timeout and sets
\* playing to FALSE; idx and the installed result stay as they were.
C12_PauseCancels ==
  [][ (lastOp' = "pause" /\ playing)
        => /\ ~playing'
           /\ timers' = {}
           /\ idx' = idx
           /\ result' = result ]_vars

\* Pause was pressed while playing past the first scene
C12_Witness ==
  /\ lastOp = "pause"
  /\ idx > 0
  /\ CurrentScene(result, idx) # NoScene
  /\ timerRef # 0
  /\ ~playing

\* C13: rendering the current scene never throws, also when a character of
\* the scene is absent from the roster: App stays mounted and usable.
C13_DanglingNoCrash == ~crashed

\* the delay the specification gives: base of the pacing plus the scene's
\* transition duration in ms, 800 ms when the scene declares none
C14_Base(pc) ==
  CASE pc = "slow" -> 4000
    [] pc = "normal" -> 2800
    [] pc = "fast" -> 1800
C14_TransitionMs(sc) == IF sc.duration = NoDuration THEN 800 ELSE sc.duration * 100
C14_Delay(pc, sc) == C14_Base(pc) + C14_TransitionMs(sc)

\* C14: every pending timeout was scheduled with base(pacing) + transition
\* duration of the current scene (slow 4000, normal 2800, fast 1800, 800 ms
\* for a scene without duration), and on every current scene the computed
\* delay is larger for slow than for normal than for fast.
C14_DelayFormula ==
  /\ \A t \in timers : t.delay = C14_Delay(pacing, CurrentScene(result, idx))
  /\ CurrentScene(result, idx) # NoScene =>
       /\ \A pc \in Pacings :
            GetDelayMs(result, idx, pc) = C14_Delay(pc, CurrentScene(result, idx))
       /\ GetDelayMs(result, idx, "slow") > GetDelayMs(result, idx, "normal")
       /\ GetDelayMs(result, idx, "normal") > GetDelayMs(result, idx, "fast")

\* a timeout is pending under slow pacing on a scene without duration
C14_Witness ==
  /\ pacing = "slow"
  /\ CurrentScene(result, idx) # NoScene
  /\ CurrentScene(result, idx).duration = NoDuration
  /\ \E t \in timers : t.delay = 4800

\* the duration the profile of the current scene must carry (tenths of s)
C15_Duration ==
  IF CurrentScene(result, idx).duration = NoDuration THEN 8
  ELSE CurrentScene(result, idx).duration

\* C15: the props of the previewed scene depend on its transition type and
\* duration only; the five known types have five different profiles; any
\* other type, a missing one included, has exactly the crossfade profile;
\* animate and exit carry the scene's own duration (0.8 s without one).
C15_ProfileByType ==
  CurrentScene(result, idx) # NoScene =>
    LET cs == CurrentScene(result, idx) IN
    /\ cs.type \notin TransitionTypes => MotionProps = GetTransitionVariants("crossfade", cs)
    /\ \A t1, t2 \in TransitionTypes :
         t1 # t2 => GetTransitionVariants(t1, cs) # GetTransitionVariants(t2, cs)
    /\ MotionProps.animate.transition.duration = C15_Duration
    /\ MotionProps.exit.transition.duration = C15_Duration
    /\ \A sc \in ProfileScenes :
         (sc.type = cs.type /\ sc.duration = cs.duration)
           => GetTransitionVariants(sc.type, sc) = MotionProps

\* a scene of an unknown transition type with its own duration is previewed
C15_Witness ==
  /\ CurrentScene(result, idx) # NoScene
  /\ CurrentScene(result, idx).type = "zoom"
  /\ CurrentScene(result, idx).duration = 12
  /\ MotionProps.initial = [opacity |-> "0"]

\* C16 as claimed: every Prev or Next pressed while playing on a non-empty
\* sequence keeps playing TRUE, cancels the pending timeout and schedules a
\* fresh one for the scene at the resulting idx, also when the move is
\* clamped at index 0 or L-1.
C16_NavAlwaysReschedules ==
  [][ (lastOp' \in {"next", "prev"} /\ playing /\ SceneCount >= 1)
        => /\ playing'
           /\ Cardinality(timers') = 1
           /\ timers' \cap timers = {}
           /\ \A t \in timers' :
                t.delay = GetDelayMs(result', idx', pacing') ]_vars

\* C16 amended: a Prev or Next pressed while playing that moves idx keeps
\* playing TRUE, cancels the pending timeout and schedules a fresh one for
\* the scene at the new idx; one clamped at index 0 or L-1 leaves idx and
\* the pending timeout as they are (the hold clock is not restarted).
C16_NavReschedulesOnMove ==
  [][ (lastOp' \in {"next", "prev"} /\ playing /\ SceneCount >= 1)
        => /\ playing'
           /\ Cardinality(timers) = 1
           /\ Cardinality(timers') = 1
           /\ idx' # idx => timers' \cap timers = {}
           /\ idx' = idx => timers' = timers
           /\ \A t \in timers' :
                t.delay = GetDelayMs(result', idx', pacing') ]_vars

\* Next was pressed while playing and moved to the last of three scenes
C16_Witness ==
  /\ lastOp = "next"
  /\ playing
  /\ SceneCount = 3
  /\ idx = 2
  /\ Cardinality(timers) = 1

C18_PlayingIffTimer ==
  /\ playing => (result.loaded /\ Cardinality(timers) = 1)
  /\ ~playing => NoTimer

\* C18 amended: playing implies a result is present, and a timeout is
\* pending exactly when that result has a scene (none on an empty scene
\* list); not playing implies none is pending.
C18_PlayingTimerIfScene ==
  /\ playing => result.loaded
  /\ (playing /\ SceneCount >= 1) => Cardinality(timers) = 1
  /\ (playing /\ SceneCount = 0) => NoTimer
  /\ ~playing => NoTimer

\* a tick has advanced the cursor and playback goes on
C18_Witness ==
  /\ lastOp = "tick"
  /\ playing
  /\ SceneCount >= 2
  /\ idx >= 1
  /\ Cardinality(timers) = 1

\* C20: a change of pacing while playing on a scene cancels the pending
\* timeout and schedules one with the new pacing's base plus the current
\* scene's transition time, idx and playing staying as they are; a change
\* while not playing schedules nothing.
C20_PacingReschedules ==
  [][ /\ (lastOp' = "pacing" /\ pacing' # pacing /\ playing /\ SceneCount >= 1) =>
           /\ playing'
           /\ idx' = idx
           /\ result' = result
           /\ Cardinality(timers') = 1
           /\ timers' \cap timers = {}
           /\ \A t \in timers' :
                t.delay = C14_Delay(pacing', CurrentScene(result, idx))
      /\ (lastOp' = "pacing" /\ ~playing) =>
           (timers' = {} /\ ~playing' /\ idx' = idx) ]_vars

\* the pacing was changed to fast while playing a scene of 1.2 s transition
C20_Witness ==
  /\ lastOp = "pacing"
  /\ playing
  /\ pacing = "fast"
  /\ \E t \in timers : t.delay = 3000

\* the scenario of the specification: transitions of 0.8 s, 1.2 s, 0.8 s
C19_Example ==
  << [type |-> "crossfade", duration |-> 8, characters |-> {}],
     [type |-> "wipe", duration |-> 12, characters |-> {"c1"}],
     [type |-> "crossfade", duration |-> 8, characters |-> {}] >>
C19_ExampleDelays == <<3600, 4000, 3600>>

\* C19: with Play and timeouts only, Play schedules the current scene's
\* delay, every tick before the last scene raises idx by exactly 1 and
\* schedules the delay of the scene then current, and playing leads to
\* playing = FALSE at idx = L-1; three scenes of 0.8/1.2/0.8 s under normal
\* pacing have the delays 3600, 4000, 3600 ms.
C19_AutoAdvanceRuns ==
  /\ [][ (lastOp' = "play" /\ ~playing) =>
           /\ idx' = idx
           /\ Cardinality(timers') = 1
           /\ \A t \in timers' :
                t.delay = C14_Delay(pacing, CurrentScene(result, idx)) ]_vars
  /\ [][ (lastOp' = "tick" /\ idx < SceneCount - 1) =>
           /\ idx' = idx + 1
           /\ playing'
           /\ result' = result
           /\ Cardinality(timers') = 1
           /\ \A t \in timers' :
                t.delay = C14_Delay(pacing, CurrentScene(result, idx + 1)) ]_vars
  /\ [][ (lastOp' = "tick" /\ idx = SceneCount - 1) =>
           (idx' = idx /\ ~playing' /\ timers' = {}) ]_vars
  /\ [](( playing /\ result.scenes = C19_Example /\ pacing = "normal") =>
           \A t \in timers : t.delay = C19_ExampleDelays[idx + 1])
  /\ (playing ~> (~playing /\ idx = SceneCount - 1))

\* the run over the scenario's three scenes has stopped on the last one
C19_Witness ==
  /\ lastOp = "tick"
  /\ result.scenes = C19_Example
  /\ pacing = "normal"
  /\ ~playing
  /\ idx = 2
  /\ NoTimer

\* C21: at most one fetch of generate() is in flight, and one is exactly
\* while loading; the handler of a response, success or failure, leaves
\* loading FALSE, and loading leads to not loading once the fetch settles;
\* a non-empty error message implies that no result is installed.
C21_OneRequestAtATime ==
  /\ [](inFlight <= 1)
  /\ [](loading <=> inFlight = 1)
  /\ [](lastOp \in {"generateOk", "generateFail"} => ~loading)
  /\ [](error # "" => result = NoResult)
  /\ [][ lastOp' = "generate" => (~loading /\ inFlight = 0 /\ error' = "") ]_vars
  /\ (loading ~> ~loading)

\* a request issued over an installed sequence failed in transport
C21_Witness ==
  /\ lastOp = "generateFail"
  /\ error = "Failed to fetch"
  /\ result = NoResult
  /\ ~loading
  /\ inFlight = 0
  /\ Len(atRequest.result.scenes) >= 1

====
